---- MODULE Spec2Model ----
(***************************************************************************)
(* A model of two parts of the engine:                                     *)
(*   - FilesystemKVStorage (src/src/persistence/backends/file.rs), the     *)
(*     key-value persistence backend that commits a value by writing a     *)
(*     temporary file and renaming it onto the final path;                 *)
(*   - FilesystemScanner (src/src/connectors/scanner/filesystem.rs), the   *)
(*     scanner that diffs a directory tree against the cached object       *)
(*     storage and proposes Read / Update / Delete actions.                *)
(* File names, keys and glob patterns are sequences of one-character       *)
(* strings, so that splitting, extensions and wildcards are computed the   *)
(* way the code computes them.                                             *)
(***************************************************************************)
EXTENDS Integers, Sequences, FiniteSets, TLC

(***************************************************************************)
(* Bounds of the model.                                                    *)
(***************************************************************************)
\* length of every value handed to put_value
ValLen == 2
\* number of distinct values handed to put_value
NumVals == 2
\* number of put_value calls of one run
MaxPuts == 2
\* number of I/O faults the environment injects in one run
MaxFaults == 1

(***************************************************************************)
(* Sequence helpers.                                                       *)
(***************************************************************************)
Last(s) == s[Len(s)]
Front(s) == SubSeq(s, 1, Len(s) - 1)
Range(s) == {s[i] : i \in 1..Len(s)}
EndsWith(s, suffix) ==
    /\ Len(s) >= Len(suffix)
    /\ SubSeq(s, Len(s) - Len(suffix) + 1, Len(s)) = suffix
IsPrefix(p, s) == Len(p) <= Len(s) /\ SubSeq(s, 1, Len(p)) = p

(***************************************************************************)
(* The persistence backend: keys, paths, temporary paths.                  *)
(***************************************************************************)
TEMPORARY_OBJECT_SUFFIX == <<".", "t", "m", "p">>

\* The keys callers hand to the backend: a plain key, a key with a trailing
\* dot, a key with an empty component, a key that ends in the temporary
\* suffix, and a nested key with an extension.
Keys ==
    { <<"a">>,
      <<"a", ".">>,
      <<"a", "/">>,
      <<"a", ".", ".", "t", "m", "p">>,
      <<"d", "/", "b", ".", "x">> }

\* The values callers put: ValLen copies of one byte.
Values == {[i \in 1..ValLen |-> b] : b \in 1..NumVals}

\* The backend never looks into a value, so the n-th call draws its value
\* from the first n.
ValuesFor(n) == {v \in Values : v[1] <= n}

\* key.split('/')
RECURSIVE split(_, _)
split(s, cur) ==
    IF s = <<>> THEN <<cur>>
    ELSE IF Head(s) = "/" THEN <<cur>> \o split(Tail(s), <<>>)
    ELSE split(Tail(s), Append(cur, Head(s)))

NonEmptyComponent(c) == c # <<>>

\* The path of a key below the root: its non-empty components.
key_to_path(key) == SelectSeq(split(key, <<>>), NonEmptyComponent)

\* Position of the last dot of a file name, 0 when it has none.
LastDot(name) ==
    IF \E i \in 1..Len(name) : name[i] = "."
    THEN CHOOSE i \in 1..Len(name) :
            name[i] = "." /\ \A j \in (i + 1)..Len(name) : name[j] # "."
    ELSE 0

\* Path::extension is Some(..): the name has a dot that is not its first
\* character.
HasExtension(name) == LastDot(name) > 1
extension(name) == SubSeq(name, LastDot(name) + 1, Len(name))
file_stem(name) ==
    IF HasExtension(name) THEN SubSeq(name, 1, LastDot(name) - 1) ELSE name

\* Path::with_extension: the stem, then a dot and the extension when the
\* extension is not empty.
with_extension(path, ext) ==
    Append(Front(path),
           file_stem(Last(path)) \o (IF ext = <<>> THEN <<>> ELSE <<".">> \o ext))

\* Mutant: the value is written in place, onto the final path.
tmp_path_in_place(final_path) == final_path

\* The temporary path put_value writes to.
tmp_path(final_path) ==
    with_extension(final_path,
        IF HasExtension(Last(final_path))
        THEN extension(Last(final_path)) \o TEMPORARY_OBJECT_SUFFIX
        ELSE TEMPORARY_OBJECT_SUFFIX)

Prefixes(path) == {SubSeq(path, 1, n) : n \in 0..Len(path)}

\* Every path the backend can touch for the keys of the model.
Paths ==
    UNION {Prefixes(key_to_path(k)) \cup {tmp_path(key_to_path(k))} : k \in Keys}

(***************************************************************************)
(* The state of the backend.                                               *)
(***************************************************************************)
VARIABLES
    disk,       \* path -> directory entry: none, a directory, or a file's inode
    inodes,     \* inode number -> the bytes of the file
    puts,       \* put_value calls: key, value, position of the writer thread
    nextPut,    \* the next put_value call
    get,        \* the get_value call in progress or last finished
    faults,     \* I/O faults injected so far
    crashed,    \* the process was killed once
    committed,  \* history: key -> the last value a rename (or remove) left for it
    discipline, \* how callers use the backend: the keys, one writer per key or any
    backend     \* FilesystemKVStorage::new: the root path it got, what it returned

kvvars == <<disk, inodes, puts, nextPut, get, faults, crashed, committed, discipline,
            backend>>

VARIABLES
    tree,       \* path -> what is on disk there: nothing, a directory, a file
    store,      \* the cached object storage: key -> metadata last committed
    scanner,    \* the FilesystemScanner: its root glob and object pattern
    scan,       \* the next_scanner_actions call in progress or last returned
    fsOps,      \* changes made to the tree so far
    scans,      \* calls made so far
    lookup      \* the last object_metadata call: its key and what it returned

scanvars == <<tree, store, scanner, scan, fsOps, scans, lookup>>
VARIABLES
    runner,         \* the thread that calls Runner::run and drops the Runner
    thread,         \* the telemetry thread: its position, its configuration
    start_channel,  \* the channel the close sender is handed back through
    close_channel,  \* the channel the telemetry thread blocks on
    global,         \* the process-wide meter and tracer providers
    guard,          \* the TelemetryGuard of the telemetry thread
    registered,     \* the metrics registered with the global meter
    stats,          \* the prober statistics shared with the engine
    runs            \* Runner::run calls made so far

telvars == <<runner, thread, start_channel, close_channel, global, guard,
             registered, stats, runs>>

vars == <<disk, inodes, puts, nextPut, get, faults, crashed, committed,
          discipline, backend, tree, store, scanner, scan, fsOps, scans, lookup,
          runner, thread, start_channel, close_channel, global, guard,
          registered, stats, runs>>

NoEntry == [t |-> "none", ino |-> 0]
DirEntry == [t |-> "dir", ino |-> 0]
FileEntry(i) == [t |-> "file", ino |-> i]

NotFound == [kind |-> "NotFound", val |-> <<>>]
IoError == [kind |-> "Io", val |-> <<>>]
Ok(v) == [kind |-> "Ok", val |-> v]

FreePut == [pc |-> "free", key |-> <<>>, value |-> <<>>, off |-> 0, fd |-> 0,
            res |-> "none", old |-> NotFound, epoch |-> 0]
IdleGet == [pc |-> "idle", key |-> <<>>, fd |-> 0, res |-> NotFound,
            allowed |-> {}, epoch |-> 0]

InFlight(p) == puts[p].pc \in {"spawned", "writing"}
Epoch == IF crashed THEN 1 ELSE 0

\* What a read of the whole file at path returns right now.
ReadPath(path) ==
    CASE disk[path].t = "file" -> Ok(inodes[disk[path].ino])
      [] disk[path].t = "none" -> NotFound
      [] OTHER -> IoError

\* The value a put would overwrite: what the key's path holds when it is issued.
PriorOf(key) == ReadPath(key_to_path(key))

(***************************************************************************)
(* fs_helpers::ensure_directory: create the directory and its missing      *)
(* ancestors; fail when one of them exists and is not a directory.         *)
(***************************************************************************)
ensure_directory_ok(dir) == \A q \in Prefixes(dir) : disk[q].t # "file"
ensure_directory(dir) ==
    [q \in Paths |-> IF q \in Prefixes(dir) THEN DirEntry ELSE disk[q]]

\* Mutant: when the directory cannot be created the sender is dropped and no
\* result is sent.
put_value_dropping_sender(key, value, dir_fault) ==
    LET parent == Front(key_to_path(key))
        issued == [FreePut EXCEPT !.key = key, !.value = value,
                                  !.old = ReadPath(key_to_path(key)),
                                  !.epoch = IF crashed THEN 1 ELSE 0]
    IN  /\ nextPut <= MaxPuts
        /\ key \in discipline.keys
        /\ discipline.mode = "single" =>
              \A p \in 1..MaxPuts : InFlight(p) => puts[p].key # key
        /\ value \in ValuesFor(nextPut)
        /\ dir_fault \in BOOLEAN
        /\ dir_fault => faults < MaxFaults
        /\ faults' = IF dir_fault THEN faults + 1 ELSE faults
        /\ IF ensure_directory_ok(parent) /\ ~dir_fault
           THEN /\ disk' = ensure_directory(parent)
                /\ puts' = [puts EXCEPT ![nextPut] = [issued EXCEPT !.pc = "spawned"]]
           ELSE /\ disk' = disk
                /\ puts' = [puts EXCEPT ![nextPut] = [issued EXCEPT !.pc = "dropped"]]
        /\ nextPut' = nextPut + 1
        /\ get' = IF get.pc = "open" /\ get.key = key
                  THEN [get EXCEPT !.allowed = @ \cup {Ok(value)}]
                  ELSE get
        /\ UNCHANGED <<inodes, crashed, committed, discipline, backend, scanvars, telvars>>

(***************************************************************************)
(* put_value, on the caller's thread: compute the paths, create the parent *)
(* directory, then spawn the writer thread.  When the directory cannot be  *)
(* created the error is sent at once and no thread is spawned.             *)
(***************************************************************************)
\* The callers use the keys of discipline.keys; under the single-writer
\* discipline a put to a key is issued only when no put to it is in flight.
Uses(key) == key \in discipline.keys
MayIssue(key) ==
    /\ nextPut <= MaxPuts
    /\ Uses(key)
    /\ discipline.mode = "single" =>
          \A p \in 1..MaxPuts : InFlight(p) => puts[p].key # key

put_value(key, value, dir_fault) ==
    LET final_path == key_to_path(key)
        parent == Front(final_path)
        issued == [FreePut EXCEPT !.key = key, !.value = value,
                                  !.old = PriorOf(key), !.epoch = Epoch]
    IN  /\ MayIssue(key)
        /\ value \in ValuesFor(nextPut)
        /\ dir_fault \in BOOLEAN
        /\ dir_fault => faults < MaxFaults
        /\ faults' = IF dir_fault THEN faults + 1 ELSE faults
        /\ IF ensure_directory_ok(parent) /\ ~dir_fault
           THEN /\ disk' = ensure_directory(parent)
                /\ puts' = [puts EXCEPT ![nextPut] = [issued EXCEPT !.pc = "spawned"]]
           ELSE /\ disk' = disk
                /\ puts' = [puts EXCEPT ![nextPut] =
                               [issued EXCEPT !.pc = "done", !.res = "err"]]
        /\ nextPut' = nextPut + 1
        /\ get' = IF get.pc = "open" /\ get.key = key
                  THEN [get EXCEPT !.allowed = @ \cup {Ok(value)}]
                  ELSE get
        /\ UNCHANGED <<inodes, crashed, committed, discipline, backend, scanvars, telvars>>

(***************************************************************************)
(* write_file, on the writer thread, one system call at a time.            *)
(***************************************************************************)
\* File::create(temp_path): open for writing, creating or truncating.
FileCreate(p) ==
    LET temp_path == tmp_path(key_to_path(puts[p].key))
    IN  /\ puts[p].pc = "spawned"
        /\ CASE disk[temp_path].t = "file" ->
                  /\ inodes' = [inodes EXCEPT ![disk[temp_path].ino] = <<>>]
                  /\ disk' = disk
                  /\ puts' = [puts EXCEPT ![p].pc = "writing",
                                          ![p].fd = disk[temp_path].ino]
             [] disk[temp_path].t = "none" ->
                  /\ inodes' = Append(inodes, <<>>)
                  /\ disk' = [disk EXCEPT ![temp_path] = FileEntry(Len(inodes) + 1)]
                  /\ puts' = [puts EXCEPT ![p].pc = "writing",
                                          ![p].fd = Len(inodes) + 1]
             [] OTHER ->
                  /\ UNCHANGED <<inodes, disk>>
                  /\ puts' = [puts EXCEPT ![p].pc = "done", ![p].res = "err"]
        /\ UNCHANGED <<nextPut, get, faults, crashed, committed, discipline, backend, scanvars, telvars>>

\* The bytes of a file after one byte is written at offset off: a write past
\* the end (the file was truncated under the writer) leaves zero bytes.
WriteAt(content, off, byte) ==
    [i \in 1..(IF off + 1 > Len(content) THEN off + 1 ELSE Len(content)) |->
        IF i = off + 1 THEN byte
        ELSE IF i <= Len(content) THEN content[i] ELSE 0]

\* output_file.write_all(value), one byte per write call.
WriteAll(p) ==
    /\ puts[p].pc = "writing"
    /\ puts[p].off < Len(puts[p].value)
    /\ inodes' = [inodes EXCEPT ![puts[p].fd] =
                     WriteAt(@, puts[p].off, puts[p].value[puts[p].off + 1])]
    /\ puts' = [puts EXCEPT ![p].off = @ + 1]
    /\ UNCHANGED <<disk, nextPut, get, faults, crashed, committed, discipline, backend, scanvars, telvars>>

\* Mutant: the rename does not wait for write_all to finish.
rename_before_written(p) == TRUE

\* write_all has returned: the whole value is in the temporary file.
all_written(p) == puts[p].off = Len(puts[p].value)

\* std::fs::rename(temp_path, final_path), then the result is sent.
Rename(p) ==
    LET final_path == key_to_path(puts[p].key)
        temp_path == tmp_path(final_path)
    IN  /\ puts[p].pc = "writing"
        /\ all_written(p)
        /\ IF disk[temp_path].t = "file" /\ disk[final_path].t # "dir"
           THEN /\ disk' = [disk EXCEPT ![final_path] = disk[temp_path],
                                        ![temp_path] = NoEntry]
                /\ puts' = [puts EXCEPT ![p].pc = "done", ![p].res = "ok"]
                /\ committed' = [committed EXCEPT ![puts[p].key] = Ok(puts[p].value)]
           ELSE /\ disk' = disk
                /\ puts' = [puts EXCEPT ![p].pc = "done", ![p].res = "err"]
                /\ committed' = committed
        /\ UNCHANGED <<inodes, nextPut, get, faults, crashed, discipline, backend, scanvars, telvars>>

\* Mutant: on an error the writer still moves the temporary file to the final
\* path.
WriteFileFails_publishing(p) ==
    LET final_path == key_to_path(puts[p].key)
        temp_path == tmp_path(final_path)
    IN  /\ InFlight(p)
        /\ faults < MaxFaults
        /\ faults' = faults + 1
        /\ puts' = [puts EXCEPT ![p].pc = "done", ![p].res = "err"]
        /\ disk' = IF puts[p].pc = "writing" /\ disk[temp_path].t = "file"
                   THEN [disk EXCEPT ![final_path] = disk[temp_path],
                                     ![temp_path] = NoEntry]
                   ELSE disk
        /\ UNCHANGED <<inodes, nextPut, get, crashed, committed, discipline, backend, scanvars, telvars>>

\* An I/O error of the environment in the writer's next system call (create,
\* write or rename): write_file returns it and the thread sends it.
WriteFileFails(p) ==
    /\ InFlight(p)
    /\ faults < MaxFaults
    /\ faults' = faults + 1
    /\ puts' = [puts EXCEPT ![p].pc = "done", ![p].res = "err"]
    /\ UNCHANGED <<disk, inodes, nextPut, get, crashed, committed, discipline, backend, scanvars, telvars>>

(***************************************************************************)
(* get_value: std::fs::read opens the file, then reads it to the end.      *)
(***************************************************************************)
Complete(key) ==
    {committed[key]} \cup {Ok(puts[p].value) : p \in {q \in 1..MaxPuts :
                                InFlight(q) /\ puts[q].key = key}}

get_value_open(key) ==
    LET path == key_to_path(key)
    IN  /\ get.pc # "open"
        /\ Uses(key)
        /\ get' = IF disk[path].t = "file"
                  THEN [pc |-> "open", key |-> key, fd |-> disk[path].ino,
                        res |-> NotFound, allowed |-> Complete(key), epoch |-> Epoch]
                  ELSE [pc |-> "done", key |-> key, fd |-> 0,
                        res |-> ReadPath(path), allowed |-> Complete(key),
                        epoch |-> Epoch]
        /\ UNCHANGED <<disk, inodes, puts, nextPut, faults, crashed, committed,
                       discipline, backend, scanvars, telvars>>

get_value_read ==
    /\ get.pc = "open"
    /\ get' = [get EXCEPT !.pc = "done", !.res = Ok(inodes[get.fd])]
    /\ UNCHANGED <<disk, inodes, puts, nextPut, faults, crashed, committed,
                   discipline, backend, scanvars, telvars>>

(***************************************************************************)
(* remove_key: std::fs::remove_file on the key's path.  It fails, and       *)
(* changes nothing, when the path is not a regular file.                   *)
(***************************************************************************)
remove_key_result(key) ==
    IF disk[key_to_path(key)].t = "file" THEN "ok" ELSE "err"

remove_key(key) ==
    LET path == key_to_path(key)
    IN  /\ Uses(key)
        /\ IF remove_key_result(key) = "ok"
           THEN /\ disk' = [disk EXCEPT ![path] = NoEntry]
                /\ committed' = [committed EXCEPT ![key] = NotFound]
                /\ get' = IF get.pc = "open" /\ get.key = key
                          THEN [get EXCEPT !.allowed = @ \cup {NotFound}]
                          ELSE get
           ELSE UNCHANGED <<disk, committed, get>>
        /\ UNCHANGED <<inodes, puts, nextPut, faults, crashed, discipline, backend, scanvars, telvars>>

(***************************************************************************)
(* list_keys: every regular file below the root whose path does not end in *)
(* the temporary suffix, as its path relative to the root joined by '/'.   *)
(***************************************************************************)
RECURSIVE join(_)
join(path) ==
    IF Len(path) = 1 THEN path[1] ELSE path[1] \o <<"/">> \o join(Tail(path))

\* Mutant: no path is taken for a temporary one.
never_temporary(path) == FALSE

is_temporary(path) == EndsWith(Last(path), TEMPORARY_OBJECT_SUFFIX)

list_keys ==
    {join(path) : path \in {q \in Paths :
        q # <<>> /\ disk[q].t = "file" /\ ~is_temporary(q)}}

(***************************************************************************)
(* The process is killed: every thread stops where it is; the files stay.  *)
(***************************************************************************)
Kill ==
    /\ ~crashed
    /\ \E p \in 1..MaxPuts : InFlight(p)
    /\ crashed' = TRUE
    /\ puts' = [p \in 1..MaxPuts |->
                   IF InFlight(p) THEN [puts[p] EXCEPT !.pc = "killed"] ELSE puts[p]]
    /\ get' = IF get.pc = "open" THEN IdleGet ELSE get
    /\ UNCHANGED <<disk, inodes, nextPut, faults, committed, discipline, backend, scanvars, telvars>>

(***************************************************************************)
(* FilesystemKVStorage::new leaves the root an existing directory and      *)
(* holds nothing else in memory.                                           *)
(***************************************************************************)
(***************************************************************************)
(* Telemetry: Runner::run spawns the telemetry thread and waits for the    *)
(* close sender it hands back; the thread initialises the providers,       *)
(* registers the metrics, sends the close sender and blocks on the close   *)
(* channel; dropping the Runner sends the close signal and joins.          *)
(***************************************************************************)
MaxRuns == 2

\* Telemetry.config: whether metrics_servers and tracing_servers are non-empty.
TelemetryConfigs == [metrics : BOOLEAN, tracing : BOOLEAN]

NoRunner == [pc |-> "none", close_sender |-> FALSE, handle |-> FALSE]
NoThread == [pc |-> "none", config |-> [metrics |-> FALSE, tracing |-> FALSE],
             swallowed |-> 0]
\* mpsc::channel(1): the messages buffered, and which ends are alive.
NoChannel == [buf |-> 0, sender |-> FALSE, receiver |-> FALSE]
NoopProviders == [meter |-> "noop", tracer |-> "noop"]
NoGuard == [alive |-> FALSE, meter_provider |-> "None", tracer_provider |-> "None"]
NothingRegistered == [stats |-> FALSE, sys |-> FALSE]

TelemetryIdle ==
    /\ runner = NoRunner
    /\ thread = NoThread
    /\ start_channel = NoChannel
    /\ close_channel = NoChannel
    /\ global = NoopProviders
    /\ guard = NoGuard
    /\ registered = NothingRegistered
    /\ stats = "None"
    /\ runs = 0

\* Runner::run, up to blocking_recv: the start channel is made and the
\* telemetry thread is spawned.
run(config) ==
    /\ runner.pc \in {"none", "dropped"}
    /\ runs < MaxRuns
    /\ runs' = runs + 1
    /\ runner' = [pc |-> "receiving", close_sender |-> FALSE, handle |-> TRUE]
    /\ thread' = [pc |-> "spawned", config |-> config, swallowed |-> 0]
    /\ start_channel' = [buf |-> 0, sender |-> TRUE, receiver |-> TRUE]
    /\ close_channel' = NoChannel
    /\ guard' = NoGuard
    /\ registered' = NothingRegistered
    /\ stats' = "None"
    /\ UNCHANGED <<global, kvvars, scanvars>>

\* rx.blocking_recv().expect(..): the Runner is built from the close sender
\* received; when the thread dropped the start sender instead, run panics.
blocking_recv ==
    /\ runner.pc = "receiving"
    /\ \/ /\ start_channel.buf = 1
          /\ start_channel' = [start_channel EXCEPT !.buf = 0, !.receiver = FALSE]
          /\ runner' = [runner EXCEPT !.pc = "running", !.close_sender = TRUE]
       \/ /\ start_channel.buf = 0
          /\ ~start_channel.sender
          /\ start_channel' = [start_channel EXCEPT !.receiver = FALSE]
          /\ runner' = [runner EXCEPT !.pc = "panicked"]
    /\ UNCHANGED <<thread, close_channel, global, guard, registered, stats, runs,
                   kvvars, scanvars>>

\* The telemetry thread: the close channel is made and telemetry.init()
\* builds the guard.  A provider is installed for a non-empty server list;
\* building an exporter can fail, and the expect then panics the thread,
\* which drops the start sender.
telemetry_init(failure) ==
    /\ thread.pc = "spawned"
    /\ failure \in {"none", "meter", "tracer"}
    /\ failure = "meter" => thread.config.metrics
    /\ failure = "tracer" => thread.config.tracing
    /\ IF failure = "none"
       THEN /\ thread' = [thread EXCEPT !.pc = "initialised"]
            /\ close_channel' = [buf |-> 0, sender |-> TRUE, receiver |-> TRUE]
            /\ guard' = [alive |-> TRUE,
                         meter_provider |->
                             IF thread.config.metrics THEN "Some" ELSE "None",
                         tracer_provider |->
                             IF thread.config.tracing THEN "Some" ELSE "None"]
            /\ global' = [meter |-> IF thread.config.metrics THEN "sdk" ELSE global.meter,
                          tracer |-> IF thread.config.tracing THEN "sdk" ELSE global.tracer]
            /\ UNCHANGED start_channel
       ELSE /\ thread' = [thread EXCEPT !.pc = "panicked"]
            /\ start_channel' = [start_channel EXCEPT !.sender = FALSE]
            /\ global' = [global EXCEPT !.meter =
                             IF failure = "tracer" /\ thread.config.metrics
                             THEN "sdk" ELSE @]
            /\ UNCHANGED <<close_channel, guard>>
    /\ UNCHANGED <<runner, registered, stats, runs, kvvars, scanvars>>

register_stats_metrics ==
    /\ thread.pc = "initialised"
    /\ thread' = [thread EXCEPT !.pc = "stats_registered"]
    /\ registered' = [registered EXCEPT !.stats = TRUE]
    /\ UNCHANGED <<runner, start_channel, close_channel, global, guard, stats, runs,
                   kvvars, scanvars>>

register_sys_metrics ==
    /\ thread.pc = "stats_registered"
    /\ thread' = [thread EXCEPT !.pc = "sys_registered"]
    /\ registered' = [registered EXCEPT !.sys = TRUE]
    /\ UNCHANGED <<runner, start_channel, close_channel, global, guard, stats, runs,
                   kvvars, scanvars>>

\* Mutant: the close sender is handed back before the metrics are registered.
send_close_sender_early ==
    /\ thread.pc = "initialised"
    /\ start_channel.buf = 0
    /\ start_channel.receiver
    /\ start_channel' = [start_channel EXCEPT !.buf = 1, !.sender = FALSE]
    /\ thread' = [thread EXCEPT !.pc = "waiting"]
    /\ UNCHANGED <<runner, close_channel, global, guard, registered, stats, runs,
                   kvvars, scanvars>>

\* start_sender.send(tx).await: the close sender goes to Runner::run, and the
\* thread goes on to rx.recv().await.
send_close_sender ==
    /\ thread.pc = "sys_registered"
    /\ start_channel.buf = 0
    /\ start_channel.receiver
    /\ start_channel' = [start_channel EXCEPT !.buf = 1, !.sender = FALSE]
    /\ thread' = [thread EXCEPT !.pc = "waiting"]
    /\ UNCHANGED <<runner, close_channel, global, guard, registered, stats, runs,
                   kvvars, scanvars>>

\* The engine's prober stores its statistics for the registered callbacks.
attach_prober ==
    /\ runner.pc = "running"
    /\ stats = "None"
    /\ stats' = "Some"
    /\ UNCHANGED <<runner, thread, start_channel, close_channel, global, guard,
                   registered, runs, kvvars, scanvars>>

\* Drop for Runner: close_sender.blocking_send(()).unwrap(); it panics when
\* the receiver is gone and blocks while the buffer is full.
blocking_send ==
    /\ runner.pc = "running"
    /\ \/ /\ close_channel.receiver
          /\ close_channel.buf = 0
          /\ close_channel' = [close_channel EXCEPT !.buf = 1]
          /\ runner' = [runner EXCEPT !.pc = "joining"]
       \/ /\ ~close_channel.receiver
          /\ close_channel' = close_channel
          /\ runner' = [runner EXCEPT !.pc = "panicked"]
    /\ UNCHANGED <<thread, start_channel, global, guard, registered, stats, runs,
                   kvvars, scanvars>>

\* rx.recv().await returns: a close signal arrived, or every sender is gone.
recv ==
    /\ thread.pc = "waiting"
    /\ close_channel.buf = 1 \/ ~close_channel.sender
    /\ close_channel' = [close_channel EXCEPT !.buf = 0]
    /\ thread' = [thread EXCEPT !.pc = "woken"]
    /\ UNCHANGED <<runner, start_channel, global, guard, registered, stats, runs,
                   kvvars, scanvars>>

\* The number of the calls that failed, none of them on a missing provider.
Failures(provider, flush_ok, shutdown_ok) ==
    IF provider # "Some" THEN 0
    ELSE (IF flush_ok THEN 0 ELSE 1) + (IF shutdown_ok THEN 0 ELSE 1)

\* Mutant: the results of force_flush and shutdown are unwrapped, so a failed
\* export panics the thread.
drop_meter_provider_unwrapping(flush_ok, shutdown_ok) ==
    /\ thread.pc = "woken"
    /\ IF Failures(guard.meter_provider, flush_ok, shutdown_ok) > 0
       THEN /\ thread' = [thread EXCEPT !.pc = "panicked"]
            /\ UNCHANGED <<guard, global>>
       ELSE /\ thread' = [thread EXCEPT !.pc = "meter_restored"]
            /\ guard' = [guard EXCEPT !.meter_provider =
                            IF @ = "Some" THEN "shutdown" ELSE @]
            /\ global' = [global EXCEPT !.meter = "noop"]
    /\ UNCHANGED <<runner, start_channel, close_channel, registered, stats, runs,
                   kvvars, scanvars>>

\* Drop for TelemetryGuard, first half: an installed meter provider is
\* flushed and shut down, errors dropped, and the no-op one is restored.
drop_meter_provider(flush_ok, shutdown_ok) ==
    /\ thread.pc = "woken"
    /\ thread' = [thread EXCEPT
                    !.pc = "meter_restored",
                    !.swallowed = @ + Failures(guard.meter_provider,
                                               flush_ok, shutdown_ok)]
    /\ guard' = [guard EXCEPT !.meter_provider = IF @ = "Some" THEN "shutdown" ELSE @]
    /\ global' = [global EXCEPT !.meter = "noop"]
    /\ UNCHANGED <<runner, start_channel, close_channel, registered, stats, runs,
                   kvvars, scanvars>>

\* Drop for TelemetryGuard, second half: the same for the tracer provider.
drop_tracer_provider(flush_ok, shutdown_ok) ==
    /\ thread.pc = "meter_restored"
    /\ thread' = [thread EXCEPT
                    !.pc = "guard_dropped",
                    !.swallowed = @ + Failures(guard.tracer_provider,
                                               flush_ok, shutdown_ok)]
    /\ guard' = [guard EXCEPT !.alive = FALSE,
                              !.tracer_provider = IF @ = "Some" THEN "shutdown" ELSE @]
    /\ global' = [global EXCEPT !.tracer = "noop"]
    /\ UNCHANGED <<runner, start_channel, close_channel, registered, stats, runs,
                   kvvars, scanvars>>

\* The async block ends: the receiver and the runtime are dropped and the
\* thread exits.
thread_exit ==
    /\ thread.pc = "guard_dropped"
    /\ thread' = [thread EXCEPT !.pc = "exited"]
    /\ close_channel' = [close_channel EXCEPT !.receiver = FALSE]
    /\ UNCHANGED <<runner, start_channel, global, guard, registered, stats, runs,
                   kvvars, scanvars>>

\* Drop for Runner: join().expect(..) returns when the thread has exited and
\* panics when the thread panicked; the close sender is dropped after it.
thread_join ==
    /\ runner.pc = "joining"
    /\ thread.pc \in {"exited", "panicked"}
    /\ runner' = [runner EXCEPT
                    !.pc = IF thread.pc = "exited" THEN "dropped" ELSE "panicked",
                    !.close_sender = FALSE, !.handle = FALSE]
    /\ close_channel' = [close_channel EXCEPT !.sender = FALSE]
    /\ UNCHANGED <<thread, start_channel, global, guard, registered, stats, runs,
                   kvvars, scanvars>>

TelemetryNext ==
    \/ \E config \in TelemetryConfigs : run(config)
    \/ blocking_recv
    \/ \E failure \in {"none", "meter", "tracer"} : telemetry_init(failure)
    \/ register_stats_metrics
    \/ register_sys_metrics
    \/ send_close_sender
    \/ attach_prober
    \/ blocking_send
    \/ recv
    \/ \E flush_ok, shutdown_ok \in BOOLEAN : drop_meter_provider(flush_ok, shutdown_ok)
    \/ \E flush_ok, shutdown_ok \in BOOLEAN : drop_tracer_provider(flush_ok, shutdown_ok)
    \/ thread_exit
    \/ thread_join

\* The threads are scheduled: a step of either that stays possible is taken.
\* Dropping the Runner is the caller's choice and is not forced.
TelemetryFairness ==
    /\ WF_vars(blocking_recv)
    /\ WF_vars(\E failure \in {"none", "meter", "tracer"} : telemetry_init(failure))
    /\ WF_vars(register_stats_metrics)
    /\ WF_vars(register_sys_metrics)
    /\ WF_vars(send_close_sender)
    /\ WF_vars(recv)
    /\ WF_vars(\E flush_ok, shutdown_ok \in BOOLEAN :
                  drop_meter_provider(flush_ok, shutdown_ok))
    /\ WF_vars(\E flush_ok, shutdown_ok \in BOOLEAN :
                  drop_tracer_provider(flush_ok, shutdown_ok))
    /\ WF_vars(thread_exit)
    /\ WF_vars(thread_join)

\* The root path given to new: whether it is valid Unicode and whether
\* "<root>/**/*" is a well-formed glob pattern.
RootPaths == [utf8 : BOOLEAN, glob : BOOLEAN]

\* was: what the root path held when new was called; fault: the directory
\* could not be created; res: what new returned.
NotConstructed(root_path) ==
    [pc |-> "none", root |-> root_path, was |-> "none", fault |-> FALSE, res |-> "none"]
Constructed ==
    [pc |-> "returned", root |-> [utf8 |-> TRUE, glob |-> TRUE], was |-> "dir",
     fault |-> FALSE, res |-> "Ok"]

new_result(dir_fault) ==
    IF ~backend.root.utf8 THEN "PathIsNotUtf8"
    ELSE IF ~backend.root.glob THEN "Pattern"
    ELSE IF ~ensure_directory_ok(<<>>) \/ dir_fault THEN "Io"
    ELSE "Ok"

\* Mutant: new does not create the root directory.
new_without_ensure_directory(dir_fault) ==
    LET res == IF ~backend.root.utf8 THEN "PathIsNotUtf8"
               ELSE IF ~backend.root.glob THEN "Pattern"
               ELSE "Ok"
    IN  /\ backend.pc = "none"
        /\ dir_fault => (backend.root.utf8 /\ backend.root.glob /\ faults < MaxFaults)
        /\ faults' = IF dir_fault THEN faults + 1 ELSE faults
        /\ disk' = disk
        /\ backend' = [backend EXCEPT !.pc = "returned", !.was = disk[<<>>].t,
                                      !.fault = dir_fault, !.res = res]
        /\ discipline' = IF res = "Ok"
                         THEN [mode |-> "single", keys |-> {<<"a">>}]
                         ELSE discipline
        /\ UNCHANGED <<inodes, puts, nextPut, get, crashed, committed, scanvars, telvars>>

\* FilesystemKVStorage::new: the path as text, the glob pattern of the root,
\* then ensure_directory; each of the three can fail, and only when all
\* succeeded is there a backend for the callers to use.
new(dir_fault) ==
    LET res == new_result(dir_fault)
    IN  /\ backend.pc = "none"
        /\ dir_fault => (backend.root.utf8 /\ backend.root.glob /\ faults < MaxFaults)
        /\ faults' = IF dir_fault THEN faults + 1 ELSE faults
        /\ disk' = IF res = "Ok" THEN ensure_directory(<<>>) ELSE disk
        /\ backend' = [backend EXCEPT !.pc = "returned", !.was = disk[<<>>].t,
                                      !.fault = dir_fault, !.res = res]
        /\ discipline' = IF res = "Ok"
                         THEN [mode |-> "single", keys |-> {<<"a">>}]
                         ELSE discipline
        /\ UNCHANGED <<inodes, puts, nextPut, get, crashed, committed, scanvars, telvars>>

KVInitWith(d) ==
    /\ TelemetryIdle
    /\ backend = Constructed
    /\ disk = [q \in Paths |-> IF q = <<>> THEN DirEntry ELSE NoEntry]
    /\ inodes = <<>>
    /\ puts = [p \in 1..MaxPuts |-> FreePut]
    /\ nextPut = 1
    /\ get = IdleGet
    /\ faults = 0
    /\ crashed = FALSE
    /\ committed = [k \in Keys |-> NotFound]
    /\ discipline = d

Next ==
    \/ \E key \in Keys, value \in Values, dir_fault \in BOOLEAN :
          put_value(key, value, dir_fault)
    \/ \E p \in 1..MaxPuts : FileCreate(p)
    \/ \E p \in 1..MaxPuts : WriteAll(p)
    \/ \E p \in 1..MaxPuts : Rename(p)
    \/ \E p \in 1..MaxPuts : WriteFileFails(p)
    \/ \E key \in Keys : get_value_open(key)
    \/ get_value_read
    \/ \E key \in Keys : remove_key(key)
    \/ Kill


(***************************************************************************)
(* The scanner: the directory tree it watches.                             *)
(***************************************************************************)
\* number of changes the environment makes to the tree in one run
MaxFsOps == 2
\* number of next_scanner_actions calls of one run
MaxScans == 2
\* sizes and modification times of files
MaxSize == 2
MaxTime == 2

NameD == <<"d">>
NameA == <<"a", ".", "t">>
NameB == <<"b", ".", "l">>
NameS == <<"s">>
NameC == <<"c", ".", "t">>
\* A name that is not valid Unicode: it holds a byte no UTF-8 text holds.
InvalidByte == "\\xFF"
NameU == <<"u", InvalidByte>>

\* The paths of the tree, in the order glob yields them.
ScanPaths ==
    << <<NameD>>, <<NameD, NameA>>, <<NameD, NameB>>, <<NameD, NameS>>,
       <<NameD, NameS, NameC>>, <<NameD, NameU>>, <<NameD, NameU, NameC>> >>
Nodes == Range(ScanPaths)

\* OsStr::to_str, Path::to_str: Some exactly for valid Unicode.
is_unicode(name) == InvalidByte \notin Range(name)
to_str_ok(path) == \A i \in 1..Len(path) : is_unicode(path[i])

\* The files and directories the environment creates and removes.
FileNodes == {q \in Nodes : to_str_ok(q)} \ {<<NameD, NameS>>}
DirNodes == {<<NameD>>, <<NameD, NameS>>}

Metas == [size : 1..MaxSize, mtime : 1..MaxTime]
NoNode == [t |-> "none", size |-> 0, mtime |-> 0]
DirNode == [t |-> "dir", size |-> 0, mtime |-> 0]
FileNode(m) == [t |-> "file", size |-> m.size, mtime |-> m.mtime]

\* The scanner's patterns: a sequence of components, each a sequence of
\* characters in which "*" is the wildcard and <<"*", "*">> the recursive one.
Star == <<"*">>
StarStar == <<"*", "*">>
StarT == <<"*", ".", "t">>
Bracket == <<"[">>

\* (root glob, object pattern) pairs the scanner is constructed with.
Configs ==
    { [path |-> <<NameD>>, object_pattern |-> Star],
      [path |-> <<NameD>>, object_pattern |-> StarT],
      [path |-> <<NameD>>, object_pattern |-> Bracket],
      [path |-> <<NameD, StarT>>, object_pattern |-> Star],
      [path |-> <<NameD, StarStar, Star>>, object_pattern |-> Star] }

(***************************************************************************)
(* std::fs::metadata on the tree: the lookup fails with NotADirectory when *)
(* a component of the path is a regular file, with NotFound when the path  *)
(* or one of its ancestors does not exist.                                 *)
(***************************************************************************)
Ancestors(path) == {SubSeq(path, 1, n) : n \in 1..(Len(path) - 1)}

fs_metadata(t, path) ==
    CASE \E q \in Ancestors(path) : t[q].t = "file" ->
            [kind |-> "NotADirectory", node |-> NoNode]
      [] t[path].t = "none" \/ \E q \in Ancestors(path) : t[q].t = "none" ->
            [kind |-> "NotFound", node |-> NoNode]
      [] OTHER -> [kind |-> "Ok", node |-> t[path]]

Exists(t, path) == fs_metadata(t, path).kind = "Ok"
is_file(t, path) == Exists(t, path) /\ t[path].t = "file"

\* FileLikeMetadata::from_fs_meta: the size, the modification time, the path.
from_fs_meta(path, node) ==
    [size |-> node.size, modified_at |-> node.mtime, path |-> path]

\* FileLikeMetadata::is_changed: the size or the modification time differs.
is_changed(stored, actual) ==
    stored.size # actual.size \/ stored.modified_at # actual.modified_at

\* On unix a key is the bytes of the path, unchanged in both directions.
path_to_bytes(path) == path
path_from_bytes(bytes) == bytes

(***************************************************************************)
(* object_metadata: Ok(Some(metadata)) when the lookup succeeds, Ok(None)   *)
(* when it fails with NotFound, the error otherwise.                       *)
(***************************************************************************)
NoMetadata == [size |-> 0, modified_at |-> 0, path |-> <<>>]
OkNone == [kind |-> "OkNone", metadata |-> NoMetadata]
OkSome(metadata) == [kind |-> "OkSome", metadata |-> metadata]
ErrIo == [kind |-> "Err", metadata |-> NoMetadata]

\* Mutant: every failed lookup is taken for a missing object.
object_metadata_any_error_is_none(t, object_path) ==
    LET looked == fs_metadata(t, path_from_bytes(object_path))
    IN  IF looked.kind = "Ok"
        THEN OkSome(from_fs_meta(path_from_bytes(object_path), looked.node))
        ELSE OkNone

object_metadata(t, object_path) ==
    LET path == path_from_bytes(object_path)
        looked == fs_metadata(t, path)
    IN  IF looked.kind = "Ok" THEN OkSome(from_fs_meta(path, looked.node))
        ELSE IF looked.kind = "NotFound" THEN OkNone
        ELSE ErrIo

NoLookup == [key |-> <<>>, res |-> OkNone, os |-> [kind |-> "none", node |-> NoNode]]

\* The engine asks for the metadata of an object; os records what
\* std::fs::metadata answered.
LookupMetadata(object_path) ==
    /\ lookup' = [key |-> object_path,
                  res |-> object_metadata(tree, object_path),
                  os |-> fs_metadata(tree, path_from_bytes(object_path))]
    /\ UNCHANGED <<tree, store, scanner, scan, fsOps, scans, kvvars, telvars>>

\* CachedObjectStorage: contains_object, and get_iter in a fixed order.
contains_object(st, key) == key \in DOMAIN st

RECURSIVE Filter(_, _)
Filter(seq, keep) ==
    IF seq = <<>> THEN <<>>
    ELSE (IF Head(seq) \in keep THEN <<Head(seq)>> ELSE <<>>) \o Filter(Tail(seq), keep)

get_iter(st) == Filter(ScanPaths, DOMAIN st)

(***************************************************************************)
(* glob: a pattern is matched component by component; "*" matches any run  *)
(* of characters of one name, the component "**" any run of directories.   *)
(* A name is matched as text: a name that is not Unicode matches no         *)
(* component, but "**" walks through a directory of any name.  A pattern    *)
(* that ends in "**" yields the directories below its prefix.               *)
(***************************************************************************)
RECURSIVE WildMatch(_, _)
WildMatch(pat, name) ==
    IF pat = <<>> THEN name = <<>>
    ELSE IF Head(pat) = "*"
         THEN WildMatch(Tail(pat), name)
              \/ (name # <<>> /\ WildMatch(pat, Tail(name)))
         ELSE name # <<>> /\ Head(pat) = Head(name)
              /\ WildMatch(Tail(pat), Tail(name))

RECURSIVE PathMatch(_, _)
PathMatch(pat, path) ==
    IF pat = <<>> THEN path = <<>>
    ELSE IF Head(pat) = StarStar
         THEN PathMatch(Tail(pat), path)
              \/ (path # <<>> /\ PathMatch(pat, Tail(path)))
         ELSE path # <<>> /\ is_unicode(Head(path))
              /\ WildMatch(Head(pat), Head(path))
              /\ PathMatch(Tail(pat), Tail(path))

\* glob::Pattern::new accepts the pattern: no unclosed "[", and a recursive
\* wildcard only as a whole component.
HasStarStar(comp) == \E i \in 1..(Len(comp) - 1) : comp[i] = "*" /\ comp[i + 1] = "*"
pattern_ok(pat) ==
    \A i \in 1..Len(pat) :
        /\ "[" \notin Range(pat[i])
        /\ HasStarStar(pat[i]) => pat[i] = StarStar

\* glob::glob(pattern): the existing paths that match, in sorted order.
glob(t, pat) ==
    Filter(ScanPaths,
           {p \in Nodes :
               /\ Exists(t, p)
               /\ PathMatch(pat, p)
               /\ (pat # <<>> /\ pat[Len(pat)] = StarStar)
                     => (t[p].t = "dir" /\ Len(p) >= Len(pat))})

(***************************************************************************)
(* get_matching_file_paths: every file the root glob yields, and for every *)
(* other entry the files below it that match the object pattern.           *)
(***************************************************************************)
\* Mutant: the object pattern is applied to the children of the entry only.
folder_scan_pattern_flat(entry, object_pattern) ==
    entry \o <<object_pattern>>

folder_scan_pattern(entry, object_pattern) ==
    entry \o <<StarStar, object_pattern>>

RECURSIVE matching_from(_, _, _)
matching_from(t, entries, object_pattern) ==
    IF entries = <<>> THEN [ok |-> TRUE, paths |-> <<>>]
    ELSE LET entry == Head(entries)
             rest == matching_from(t, Tail(entries), object_pattern)
             nested == folder_scan_pattern(entry, object_pattern)
         IN  IF is_file(t, entry)
             THEN [ok |-> rest.ok, paths |-> <<entry>> \o rest.paths]
             ELSE IF ~to_str_ok(entry)
                  THEN rest
             ELSE IF ~pattern_ok(nested)
                  THEN [ok |-> FALSE, paths |-> <<>>]
                  ELSE [ok |-> rest.ok,
                        paths |-> Filter(glob(t, nested),
                                         {p \in Nodes : is_file(t, p)}) \o rest.paths]

get_matching_file_paths(t, sc) ==
    LET found == matching_from(t, glob(t, sc.path), sc.object_pattern)
    IN  IF found.ok THEN found ELSE [ok |-> FALSE, paths |-> <<>>]

(***************************************************************************)
(* The queued actions and the two passes of next_scanner_actions.          *)
(***************************************************************************)
Read(key, metadata) == [op |-> "Read", key |-> key, metadata |-> metadata]
Update(key, metadata) == [op |-> "Update", key |-> key, metadata |-> metadata]
Delete(key) == [op |-> "Delete", key |-> key, metadata |-> NoMetadata]

\* Mutant: the Update carries the metadata of the storage, not of the disk.
deletion_or_stale_replacement(t, encoded_path, stored_metadata) ==
    LET looked == fs_metadata(t, path_from_bytes(encoded_path))
    IN  IF looked.kind # "Ok"
        THEN IF looked.kind = "NotFound" THEN <<Delete(encoded_path)>> ELSE <<>>
        ELSE IF is_changed(stored_metadata,
                           from_fs_meta(path_from_bytes(encoded_path), looked.node))
             THEN <<Update(encoded_path, stored_metadata)>>
             ELSE <<>>

\* The body of the loop of new_deletion_and_replacement_actions for one
\* entry of the storage.
deletion_or_replacement(t, encoded_path, stored_metadata) ==
    LET path == path_from_bytes(encoded_path)
        looked == fs_metadata(t, path)
        actual_metadata == from_fs_meta(path, looked.node)
    IN  IF looked.kind # "Ok"
        THEN IF looked.kind = "NotFound" THEN <<Delete(encoded_path)>> ELSE <<>>
        ELSE IF is_changed(stored_metadata, actual_metadata)
             THEN <<Update(encoded_path, actual_metadata)>>
             ELSE <<>>

RECURSIVE deletions_from(_, _, _)
deletions_from(t, st, keys) ==
    IF keys = <<>> THEN <<>>
    ELSE deletion_or_replacement(t, Head(keys), st[Head(keys)])
         \o deletions_from(t, st, Tail(keys))

new_deletion_and_replacement_actions(t, st) == deletions_from(t, st, get_iter(st))

\* Mutant: the scanner remembers the keys of the batch it returned last and
\* takes them for known.
new_insertion_action_remembering(t, st, entry) ==
    LET looked == fs_metadata(t, entry)
    IN  IF contains_object(st, path_to_bytes(entry)) THEN <<>>
        ELSE IF \E r \in scan.last.reads : r.key = path_to_bytes(entry) THEN <<>>
        ELSE IF looked.kind # "Ok" THEN <<>>
        ELSE <<Read(path_to_bytes(entry), from_fs_meta(entry, looked.node))>>

\* Mutant: a failed stat yields a Read with default metadata.
new_insertion_action_unwrap_or_default(t, st, entry) ==
    LET looked == fs_metadata(t, entry)
    IN  IF contains_object(st, path_to_bytes(entry)) THEN <<>>
        ELSE IF looked.kind # "Ok" THEN <<Read(path_to_bytes(entry), NoMetadata)>>
        ELSE <<Read(path_to_bytes(entry), from_fs_meta(entry, looked.node))>>

\* Mutant: the storage is not asked whether it holds the key.
new_insertion_action_unchecked(t, st, entry) ==
    LET looked == fs_metadata(t, entry)
    IN  IF looked.kind # "Ok" THEN <<>>
        ELSE <<Read(path_to_bytes(entry), from_fs_meta(entry, looked.node))>>

\* The body of the loop of new_insertion_actions for one matching path.
new_insertion_action(t, st, entry) ==
    LET object_key == path_to_bytes(entry)
        looked == fs_metadata(t, entry)
    IN  IF contains_object(st, object_key) THEN <<>>
        ELSE IF looked.kind # "Ok" THEN <<>>
        ELSE <<Read(object_key, from_fs_meta(entry, looked.node))>>

\* Mutant: the actions of the insertion pass are put in front.
vec_prepend(result, other) == other \o result

\* result.append(&mut other): the actions of other follow those of result.
vec_append(result, other) == result \o other

\* The set of the Read actions of a batch.
ReadsOf(batch) == {batch[i] : i \in {j \in 1..Len(batch) : batch[j].op = "Read"}}

\* History of the call before: its Read actions, when its batch was dropped
\* without being applied, and the count of tree changes when it started.
NoLast == [valid |-> FALSE, reads |-> {}, ops |-> 0]

\* History of the batch applied last: whether it came from a call with
\* deletions enabled, and the count of tree changes when that call started.
NoApplied == [valid |-> FALSE, ops |-> 0]

\* seen, listed: the tree at the deletion pass and at the enumeration; ops:
\* the count of tree changes at the call; found: the paths enumerated; lost:
\* the positions in found of the paths that were gone at their stat.
IdleScan == [pc |-> "idle", del |-> FALSE, batch |-> <<>>, cands |-> <<>>,
             result |-> "none", seen |-> <<>>, listed |-> <<>>,
             ops |-> 0, found |-> <<>>, lost |-> {}, last |-> NoLast,
             applied |-> NoApplied]

\* Mutant: the deletion pass runs whatever the flag says.
next_scanner_actions_always_deleting(are_deletions_enabled) ==
    /\ scan.pc = "idle"
    /\ scans < MaxScans
    /\ scans' = scans + 1
    /\ scan' = [IdleScan EXCEPT
                  !.pc = "enumerate",
                  !.del = are_deletions_enabled,
                  !.seen = tree,
                  !.ops = fsOps,
                  !.last = scan.last,
                  !.applied = scan.applied,
                  !.batch = vec_append(<<>>,
                               new_deletion_and_replacement_actions(tree, store))]
    /\ UNCHANGED <<tree, store, scanner, fsOps, lookup, kvvars, telvars>>

\* The call starts; with deletions enabled the deletion pass runs first.
next_scanner_actions(are_deletions_enabled) ==
    /\ scan.pc = "idle"
    /\ scans < MaxScans
    /\ scans' = scans + 1
    /\ scan' = [IdleScan EXCEPT
                  !.pc = "enumerate",
                  !.del = are_deletions_enabled,
                  !.seen = tree,
                  !.ops = fsOps,
                  !.last = scan.last,
                  !.applied = scan.applied,
                  !.batch = IF are_deletions_enabled
                            THEN vec_append(<<>>,
                                    new_deletion_and_replacement_actions(tree, store))
                            ELSE <<>>]
    /\ UNCHANGED <<tree, store, scanner, fsOps, lookup, kvvars, telvars>>

\* new_insertion_actions lists the matching paths; a pattern error ends the
\* call with an error.
Enumerate ==
    LET found == get_matching_file_paths(tree, scanner)
    IN  /\ scan.pc = "enumerate"
        /\ scan' = IF ~found.ok
                   THEN [scan EXCEPT !.pc = "returned", !.result = "Err",
                                     !.batch = <<>>, !.listed = tree]
                   ELSE [scan EXCEPT
                           !.pc = IF found.paths = <<>> THEN "returned" ELSE "inserting",
                           !.result = IF found.paths = <<>> THEN "Ok" ELSE "none",
                           !.cands = found.paths,
                           !.found = found.paths,
                           !.listed = tree]
        /\ UNCHANGED <<tree, store, scanner, fsOps, scans, lookup, kvvars, telvars>>

\* Mutant: the insertion pass enters the key it emits into the storage.
InsertionStep_recording ==
    /\ scan.pc = "inserting"
    /\ scan' = [scan EXCEPT
                  !.batch = vec_append(@, new_insertion_action(tree, store,
                                                               Head(scan.cands))),
                  !.lost = IF Exists(tree, Head(scan.cands))
                           THEN @
                           ELSE @ \cup {Len(scan.found) - Len(scan.cands) + 1},
                  !.cands = Tail(@),
                  !.pc = IF Tail(scan.cands) = <<>> THEN "returned" ELSE "inserting",
                  !.result = IF Tail(scan.cands) = <<>> THEN "Ok" ELSE "none"]
    /\ store' = [k \in DOMAIN store \cup
                       {a.key : a \in Range(new_insertion_action(tree, store,
                                                                 Head(scan.cands)))} |->
                   IF k \in DOMAIN store THEN store[k]
                   ELSE from_fs_meta(k, tree[k])]
    /\ UNCHANGED <<tree, scanner, fsOps, scans, lookup, kvvars, telvars>>

\* new_insertion_actions handles the next matching path; after the last one
\* the call returns the batch.
InsertionStep ==
    /\ scan.pc = "inserting"
    /\ scan' = [scan EXCEPT
                  !.batch = vec_append(@, new_insertion_action(tree, store,
                                                               Head(scan.cands))),
                  !.lost = IF Exists(tree, Head(scan.cands))
                           THEN @
                           ELSE @ \cup {Len(scan.found) - Len(scan.cands) + 1},
                  !.cands = Tail(@),
                  !.pc = IF Tail(scan.cands) = <<>> THEN "returned" ELSE "inserting",
                  !.result = IF Tail(scan.cands) = <<>> THEN "Ok" ELSE "none"]
    /\ UNCHANGED <<tree, store, scanner, fsOps, scans, lookup, kvvars, telvars>>

\* Mutant: a call that returned actions leaves the scanner with work pending.
has_pending_actions_after_batch == scan.pc = "returned" /\ scan.batch # <<>>

\* has_pending_actions: the scanner buffers nothing between the calls.
has_pending_actions == FALSE

(***************************************************************************)
(* The engine: it applies the actions of a returned batch to the storage,  *)
(* or drops the batch.                                                     *)
(***************************************************************************)
ApplyAction(st, action) ==
    IF action.op = "Delete"
    THEN [k \in DOMAIN st \ {action.key} |-> st[k]]
    ELSE [k \in DOMAIN st \cup {action.key} |->
             IF k = action.key THEN action.metadata ELSE st[k]]

RECURSIVE ApplyBatch(_, _)
ApplyBatch(st, batch) ==
    IF batch = <<>> THEN st ELSE ApplyBatch(ApplyAction(st, Head(batch)), Tail(batch))

Apply ==
    /\ scan.pc = "returned"
    /\ scan.result = "Ok"
    /\ store' = ApplyBatch(store, scan.batch)
    /\ scan' = [IdleScan EXCEPT !.applied =
                   IF scan.del THEN [valid |-> TRUE, ops |-> scan.ops] ELSE NoApplied]
    /\ UNCHANGED <<tree, scanner, fsOps, scans, lookup, kvvars, telvars>>

Discard ==
    /\ scan.pc = "returned"
    /\ scan' = [IdleScan EXCEPT
                  !.applied = scan.applied,
                  !.last = IF scan.result = "Ok"
                           THEN [valid |-> TRUE, reads |-> ReadsOf(scan.batch),
                                 ops |-> scan.ops]
                           ELSE NoLast]
    /\ UNCHANGED <<tree, store, scanner, fsOps, scans, lookup, kvvars, telvars>>

(***************************************************************************)
(* The environment changes the tree.                                       *)
(***************************************************************************)
ParentIsDir(t, path) ==
    IF Len(path) = 1 THEN TRUE
    ELSE Exists(t, Front(path)) /\ t[Front(path)].t = "dir"

CreateFile(path, m) ==
    /\ fsOps < MaxFsOps
    /\ tree[path].t = "none"
    /\ ParentIsDir(tree, path)
    /\ tree' = [tree EXCEPT ![path] = FileNode(m)]
    /\ fsOps' = fsOps + 1
    /\ UNCHANGED <<store, scanner, scan, scans, lookup, kvvars, telvars>>

ModifyFile(path, m) ==
    /\ fsOps < MaxFsOps
    /\ tree[path].t = "file"
    /\ FileNode(m) # tree[path]
    /\ tree' = [tree EXCEPT ![path] = FileNode(m)]
    /\ fsOps' = fsOps + 1
    /\ UNCHANGED <<store, scanner, scan, scans, lookup, kvvars, telvars>>

DeleteFile(path) ==
    /\ fsOps < MaxFsOps
    /\ tree[path].t = "file"
    /\ tree' = [tree EXCEPT ![path] = NoNode]
    /\ fsOps' = fsOps + 1
    /\ UNCHANGED <<store, scanner, scan, scans, lookup, kvvars, telvars>>

MakeDir(path) ==
    /\ fsOps < MaxFsOps
    /\ tree[path].t = "none"
    /\ ParentIsDir(tree, path)
    /\ tree' = [tree EXCEPT ![path] = DirNode]
    /\ fsOps' = fsOps + 1
    /\ UNCHANGED <<store, scanner, scan, scans, lookup, kvvars, telvars>>

\* rename(from, to) of a file to a path where nothing is.
RenameFile(from, to) ==
    /\ fsOps < MaxFsOps
    /\ tree[from].t = "file"
    /\ tree[to].t = "none"
    /\ ParentIsDir(tree, to)
    /\ tree' = [tree EXCEPT ![to] = tree[from], ![from] = NoNode]
    /\ fsOps' = fsOps + 1
    /\ UNCHANGED <<store, scanner, scan, scans, lookup, kvvars, telvars>>

\* The directory goes with everything below it.
RemoveDir(path) ==
    /\ fsOps < MaxFsOps
    /\ tree[path].t = "dir"
    /\ tree' = [q \in Nodes |-> IF IsPrefix(path, q) THEN NoNode ELSE tree[q]]
    /\ fsOps' = fsOps + 1
    /\ UNCHANGED <<store, scanner, scan, scans, lookup, kvvars, telvars>>

(***************************************************************************)
(* Initial states and specifications.                                      *)
(***************************************************************************)
\* The tree when the scanner is constructed: d/a.t and d/b.l exist, d/s is
\* an empty directory.
InitialTree ==
    [q \in Nodes |-> IF q \in DirNodes THEN DirNode
                     ELSE IF q = <<NameD, NameS, NameC>> \/ ~to_str_ok(q) THEN NoNode
                     ELSE FileNode([size |-> 1, mtime |-> 1])]

\* The same tree with a directory whose name is not Unicode and a file in it.
UnicodeTree ==
    [InitialTree EXCEPT ![<<NameD, NameU>>] = DirNode,
                        ![<<NameD, NameU, NameC>>] = FileNode([size |-> 1, mtime |-> 1])]

\* Scanners whose patterns reach the directory: by the nested glob of the
\* root d, as an entry of the root glob d/**, and through the root d/**/*.
UnicodeConfigs ==
    { [path |-> <<NameD>>, object_pattern |-> Star],
      [path |-> <<NameD, StarStar>>, object_pattern |-> Star],
      [path |-> <<NameD, StarStar, Star>>, object_pattern |-> Star] }

UnicodeScanInit ==
    /\ tree = UnicodeTree
    /\ store = <<>>
    /\ scanner \in {c \in UnicodeConfigs : pattern_ok(c.path)}
    /\ scan = IdleScan
    /\ fsOps = 0
    /\ scans = 0
    /\ lookup = NoLookup

ScanIdle ==
    /\ tree = InitialTree
    /\ store = <<>>
    /\ scanner = [path |-> <<NameD>>, object_pattern |-> Star]
    /\ scan = IdleScan
    /\ fsOps = 0
    /\ scans = 0
    /\ lookup = NoLookup

\* FilesystemScanner::new: the root glob must be a valid pattern.
ScanInit ==
    /\ tree = InitialTree
    /\ store = <<>>
    /\ scanner \in {c \in Configs : pattern_ok(c.path)}
    /\ scan = IdleScan
    /\ fsOps = 0
    /\ scans = 0
    /\ lookup = NoLookup

ScannerNext ==
    \/ \E are_deletions_enabled \in BOOLEAN : next_scanner_actions(are_deletions_enabled)
    \/ Enumerate
    \/ InsertionStep
    \/ Apply
    \/ Discard
    \/ \E path \in FileNodes, m \in Metas : CreateFile(path, m)
    \/ \E path \in FileNodes, m \in Metas : ModifyFile(path, m)
    \/ \E path \in FileNodes : DeleteFile(path)
    \/ \E path \in DirNodes : MakeDir(path)
    \/ \E path \in DirNodes : RemoveDir(path)
    \/ \E from \in FileNodes, to \in FileNodes : RenameFile(from, to)

\* The engine looks objects up while the environment changes the tree.
LookupNext ==
    \/ \E object_path \in Nodes : LookupMetadata(object_path)
    \/ \E path \in FileNodes, m \in Metas : CreateFile(path, m)
    \/ \E path \in FileNodes, m \in Metas : ModifyFile(path, m)
    \/ \E path \in FileNodes : DeleteFile(path)
    \/ \E path \in DirNodes : MakeDir(path)
    \/ \E path \in DirNodes : RemoveDir(path)
    \/ \E from \in FileNodes, to \in FileNodes : RenameFile(from, to)

KVIdle == KVInitWith([mode |-> "any", keys |-> Keys])

\* The backend, used by any number of callers on any keys.
Init == KVInitWith([mode |-> "any", keys |-> Keys]) /\ ScanIdle
Spec == Init /\ [][Next]_vars

\* The files a put to the key touches: its final and its temporary path.
Touched(key) == {key_to_path(key), tmp_path(key_to_path(key))}
Disjoint(used) ==
    \A k1, k2 \in used : k1 # k2 => Touched(k1) \cap Touched(k2) = {}

\* The backend as a recovery log: one writer per key, on keys whose final and
\* temporary paths are pairwise distinct.
SingleWriterInit ==
    /\ \E used \in SUBSET Keys :
          /\ used # {}
          /\ Disjoint(used)
          /\ KVInitWith([mode |-> "single", keys |-> used])
    /\ ScanIdle
SingleWriterSpec == SingleWriterInit /\ [][Next]_vars

\* The backend with its writer threads scheduled fairly: a thread that can
\* take its next step takes it.
PutInit == KVInitWith([mode |-> "any", keys |-> {<<"a">>, <<"a", ".">>}]) /\ ScanIdle
Fairness ==
    \A p \in 1..MaxPuts :
        WF_vars(FileCreate(p)) /\ WF_vars(WriteAll(p)) /\ WF_vars(Rename(p))
FairSpec == PutInit /\ [][Next]_vars /\ Fairness

\* The backend from before its construction: the root path holds nothing, a
\* directory or a file, and no caller uses a key until new has returned Ok.
NewInit ==
    /\ \E at \in {"none", "dir", "file"} :
          /\ disk = [q \in Paths |->
                       IF q # <<>> THEN NoEntry
                       ELSE IF at = "dir" THEN DirEntry
                       ELSE IF at = "file" THEN FileEntry(1) ELSE NoEntry]
          /\ inodes = IF at = "file" THEN << <<>> >> ELSE <<>>
    /\ backend \in {NotConstructed(root_path) : root_path \in RootPaths}
    /\ puts = [p \in 1..MaxPuts |-> FreePut]
    /\ nextPut = 1
    /\ get = IdleGet
    /\ faults = 0
    /\ crashed = FALSE
    /\ committed = [k \in Keys |-> NotFound]
    /\ discipline = [mode |-> "single", keys |-> {}]
    /\ TelemetryIdle
    /\ ScanIdle

NewNext ==
    \/ \E dir_fault \in BOOLEAN : new(dir_fault)
    \/ \E key \in Keys, value \in Values, dir_fault \in BOOLEAN :
          put_value(key, value, dir_fault)
    \/ \E p \in 1..MaxPuts : FileCreate(p)
    \/ \E p \in 1..MaxPuts : WriteAll(p)
    \/ \E p \in 1..MaxPuts : Rename(p)
    \/ \E p \in 1..MaxPuts : WriteFileFails(p)
    \/ \E key \in Keys : get_value_open(key)
    \/ get_value_read
    \/ \E key \in Keys : remove_key(key)
    \/ Kill

NewSpec == NewInit /\ [][NewNext]_vars

\* The scanner, the engine that applies its batches, and the environment.
ScannerInit == KVIdle /\ ScanInit
ScannerSpec == ScannerInit /\ [][ScannerNext]_vars

\* The telemetry thread and the thread that runs and drops the Runner.
TelemetryInit == KVIdle /\ ScanIdle
TelemetrySpec == TelemetryInit /\ [][TelemetryNext]_vars /\ TelemetryFairness

\* The scanner over a tree that holds names that are not Unicode.
UnicodeInit == KVIdle /\ UnicodeScanInit
UnicodeSpec == UnicodeInit /\ [][ScannerNext]_vars

\* object_metadata over a changing tree.
LookupSpec == ScannerInit /\ [][LookupNext]_vars

(***************************************************************************)
(* Claims about the persistence backend.                                   *)
(***************************************************************************)
IssuedPuts == {p \in 1..MaxPuts : puts[p].pc # "free"}

\* C1: with a single writer on a key, a get_value that runs while a put_value
\* of the key is at any step (before the temporary file exists, while it is
\* written, before or after the rename) returns the complete value the key
\* held or the complete value being put: a value in get.allowed, which holds
\* the committed value at the open and the values of the puts in flight
\* during the get; never a prefix, a mix or an empty buffer.
C1_GetReturnsOldOrNew ==
    get.pc = "done" =>
        /\ get.res \in get.allowed
        /\ get.res.kind = "Ok" => get.res.val \in Values

\* The get returned the old value of its key while the put of another value
\* had written part of the temporary file.
C1_Witness ==
    /\ get.pc = "done"
    /\ get.res.kind = "Ok"
    /\ \E p \in 1..MaxPuts :
          /\ InFlight(p)
          /\ puts[p].key = get.key
          /\ puts[p].off = 1
          /\ puts[p].old = get.res
          /\ puts[p].value # get.res.val

\* C2: when the process is killed at a step of put_value(k, V) before the
\* rename, a get_value(k) of the restarted process (with no put to k issued
\* after the kill) fails with not-found or returns the complete value k held
\* before the put, never a truncated or partial buffer.
C2_KilledPutLeavesPriorValue ==
    \A p \in 1..MaxPuts :
        ( /\ puts[p].pc = "killed"
          /\ get.pc = "done"
          /\ get.epoch = 1
          /\ get.key = puts[p].key
          /\ \A q \in 1..MaxPuts : puts[q].epoch = 0 )
        => /\ get.res \in {NotFound, puts[p].old}
           /\ get.res.kind = "Ok" => get.res.val \in Values

\* The put was killed with the temporary file partly written, over a key that
\* held a value, and the get after the kill returned that value.
C2_Witness ==
    \E p \in 1..MaxPuts :
        /\ puts[p].pc = "killed"
        /\ puts[p].off = 1
        /\ puts[p].old.kind = "Ok"
        /\ get.pc = "done"
        /\ get.epoch = 1
        /\ get.key = puts[p].key
        /\ get.res = puts[p].old

\* C3: in every state (puts in flight, failed or killed, temporary files left
\* behind) list_keys holds no entry that is the temporary path of a put.
C3_ListKeysHidesTemporaries ==
    \A p \in IssuedPuts :
        join(tmp_path(key_to_path(puts[p].key))) \notin list_keys

\* A failed or killed put left its temporary file on disk and list_keys
\* reports a committed key beside it.
C3_Witness ==
    /\ list_keys # {}
    /\ \E p \in IssuedPuts :
          /\ puts[p].pc \in {"killed", "done"}
          /\ puts[p].res # "ok"
          /\ disk[tmp_path(key_to_path(puts[p].key))].t = "file"

\* C4: when the only puts are concurrent puts to one key, with no fault and
\* no kill, every get_value of the key returns one complete value, and once
\* the puts have finished the key holds one of their values in full.
C4_SameKeyPutsAreAtomic ==
    \A k \in Keys :
        ( /\ faults = 0
          /\ ~crashed
          /\ \A p \in IssuedPuts : puts[p].key = k )
        => /\ (get.pc = "done" /\ get.key = k /\ get.res.kind = "Ok")
                => get.res.val \in Values
           /\ (IssuedPuts = 1..MaxPuts /\ \A p \in IssuedPuts : puts[p].pc = "done")
                => ReadPath(key_to_path(k)) \in
                      {NotFound} \cup {Ok(puts[p].value) : p \in IssuedPuts}

\* C5: concurrent puts to different keys, with no fault and no kill, do not
\* affect one another: a get_value of a key returns a value committed or in
\* flight for that key, and every finished put reports success.
C5_DifferentKeysAreIndependent ==
    ( /\ faults = 0
      /\ ~crashed
      /\ Cardinality(IssuedPuts) = 2
      /\ \A p, q \in IssuedPuts : p # q => puts[p].key # puts[q].key )
    => /\ (get.pc = "done" /\ \E p \in IssuedPuts : puts[p].key = get.key)
            => get.res \in get.allowed
       /\ \A p \in IssuedPuts : puts[p].pc = "done" => puts[p].res = "ok"

\* C13: once put_value(k, V) has resolved with success and no put or remove
\* of k was issued since, get_value(k) returns V and list_keys holds k.
C13_PutGetListRoundTrip ==
    \A p \in IssuedPuts :
        ( /\ puts[p].pc = "done"
          /\ puts[p].res = "ok"
          /\ committed[puts[p].key] = Ok(puts[p].value)
          /\ \A q \in IssuedPuts : q > p => puts[q].key # puts[p].key )
        => /\ ReadPath(key_to_path(puts[p].key)) = Ok(puts[p].value)
           /\ puts[p].key \in list_keys

\* C14: for a key with no committed value, at every step of a put_value of
\* it before the rename, get_value of the key fails with not-found and
\* list_keys does not hold the key; after the rename get_value returns the
\* value.
C14_VisibleOnlyAtCommit ==
    \A p \in IssuedPuts :
        /\ (InFlight(p) /\ puts[p].old = NotFound /\ committed[puts[p].key] = NotFound)
              => /\ ReadPath(key_to_path(puts[p].key)) = NotFound
                 /\ puts[p].key \notin list_keys
        /\ ( /\ puts[p].pc = "done"
             /\ puts[p].res = "ok"
             /\ committed[puts[p].key] = Ok(puts[p].value)
             /\ \A q \in IssuedPuts : q > p => puts[q].key # puts[p].key )
              => ReadPath(key_to_path(puts[p].key)) = Ok(puts[p].value)

\* The whole value is in the temporary file, the rename has not run, and the
\* key is not visible.
C14_Witness ==
    \E p \in IssuedPuts :
        /\ puts[p].pc = "writing"
        /\ puts[p].off = Len(puts[p].value)
        /\ puts[p].old = NotFound
        /\ disk[tmp_path(key_to_path(puts[p].key))].t = "file"
        /\ ReadPath(key_to_path(puts[p].key)) = NotFound

\* C15: a put_value that fails at a step (directory, create, write, rename)
\* has the error as its one result and takes no further step (no retry); and
\* as long as no later put or remove of the key is issued, get_value of the
\* key yields the complete old value (or not-found) or the complete new
\* value, never a partial one.
C15_FailedPutLeavesOldOrNew ==
    /\ [](\A p \in IssuedPuts :
            ( /\ puts[p].pc = "done"
              /\ puts[p].res = "err"
              /\ committed[puts[p].key] = puts[p].old
              /\ \A q \in IssuedPuts : q > p => puts[q].key # puts[p].key )
            => LET now == ReadPath(key_to_path(puts[p].key))
               IN  /\ now \in {puts[p].old, Ok(puts[p].value)}
                   /\ now.kind = "Ok" => now.val \in Values)
    /\ [][\A p \in 1..MaxPuts :
            puts[p].pc = "done" => puts'[p] = puts[p]]_vars

\* A put failed with half of the value in the temporary file, over a key
\* that held a value, and the key still holds that value.
C15_Witness ==
    \E p \in IssuedPuts :
        /\ puts[p].pc = "done"
        /\ puts[p].res = "err"
        /\ puts[p].off = 1
        /\ puts[p].old.kind = "Ok"
        /\ puts[p].old.val # puts[p].value
        /\ ReadPath(key_to_path(puts[p].key)) = puts[p].old

\* C16: with the writer threads scheduled fairly and the process not killed,
\* every put_value issued gets a result; a result, once sent, is the only
\* one; and put_value returns at once, with the result of a failed directory
\* creation or with the writer thread spawned and nothing written.
C16_EveryPutCompletes ==
    /\ \A p \in 1..MaxPuts :
          (puts[p].pc # "free") ~> (puts[p].pc \in {"done", "killed"})
    /\ [](\A p \in 1..MaxPuts : puts[p].pc = "done" <=> puts[p].res # "none")
    /\ [][\A p \in 1..MaxPuts :
            /\ puts[p].res # "none" => puts'[p].res = puts[p].res
            /\ (puts[p].pc = "free" /\ puts'[p].pc # "free")
                  => /\ puts'[p].off = 0
                     /\ \/ puts'[p].pc = "spawned"
                        \/ puts'[p].pc = "done" /\ puts'[p].res = "err"]_vars

\* One put got its error from put_value itself, another its success from the
\* writer thread.
C16_Witness ==
    \E p, q \in IssuedPuts :
        /\ puts[p].pc = "done" /\ puts[p].res = "err" /\ puts[p].fd = 0
        /\ puts[q].pc = "done" /\ puts[q].res = "ok"

\* C17: a remove_key(k) that succeeds leaves get_value(k) failing and k out of
\* list_keys, and the value of every other key unchanged; a remove_key of a
\* key with no committed value returns an error and changes nothing.
C17_RemoveFrame ==
    [][\A k \in Keys :
        remove_key(k) =>
            /\ committed[k] = NotFound =>
                  (remove_key_result(k) = "err" /\ UNCHANGED <<disk, inodes>>)
            /\ remove_key_result(k) = "ok" =>
                  /\ ReadPath(key_to_path(k))' = NotFound
                  /\ k \notin list_keys'
                  /\ \A k2 \in Keys \ {k} :
                        committed[k2].kind = "Ok" =>
                            ReadPath(key_to_path(k2))' = ReadPath(key_to_path(k2))]_vars

\* C30: a get_value(k) that succeeds returns a value that was passed whole
\* to some put_value(k, .); no key reads what a put of another key wrote to
\* its temporary file.
C30_NoThinAirValue ==
    (get.pc = "done" /\ get.res.kind = "Ok") =>
        \E p \in IssuedPuts :
            puts[p].key = get.key /\ puts[p].value = get.res.val

\* C26: when new has returned Ok the root path is a directory, there before
\* the call or created by it, and stays one; when the root path is not UTF-8,
\* holds something that is not a directory, or cannot be created, new
\* returns an error and there is no backend to use.
C26_NewNeedsRootDirectory ==
    backend.pc = "returned" =>
        /\ backend.res = "Ok" => (disk[<<>>].t = "dir" /\ backend.root.utf8)
        /\ (~backend.root.utf8 \/ backend.was = "file" \/ backend.fault)
              => /\ backend.res # "Ok"
                 /\ discipline.keys = {}
                 /\ IssuedPuts = {}
                 /\ get.pc = "idle"
                 /\ disk[<<>>].t = backend.was

\* new found nothing at the root path, created the directory, and a put of
\* the backend it returned has finished.
C26_Witness ==
    /\ backend.pc = "returned"
    /\ backend.res = "Ok"
    /\ backend.was = "none"
    /\ disk[<<>>].t = "dir"
    /\ \E p \in IssuedPuts : puts[p].pc = "done" /\ puts[p].res = "ok"

\* C31: the keys of the puts issued map to pairwise distinct files, and the
\* string list_keys reports for the file a successful put committed is the
\* key that was passed to put_value.
C31_KeyToPathIsInjective ==
    /\ \A p, q \in IssuedPuts :
          puts[p].key # puts[q].key
              => key_to_path(puts[p].key) # key_to_path(puts[q].key)
    /\ \A p \in IssuedPuts :
          ( /\ puts[p].pc = "done"
            /\ puts[p].res = "ok"
            /\ disk[key_to_path(puts[p].key)].t = "file"
            /\ ~is_temporary(key_to_path(puts[p].key)) )
          => join(key_to_path(puts[p].key)) = puts[p].key

(***************************************************************************)
(* Claims about the scanner.                                               *)
(***************************************************************************)
Returned == scan.pc = "returned" /\ scan.result = "Ok"
ActionsOn(key) == {i \in 1..Len(scan.batch) : scan.batch[i].key = key}

\* C6: in the batch of a scan with deletions enabled every tracked key whose
\* object was gone from the tree when the scan started has exactly one
\* action, a Delete; and an untracked key whose object does not exist during
\* the scan has no action.
C6_NoMissedDeletion ==
    (Returned /\ scan.del) =>
        /\ \A key \in DOMAIN store :
              ~Exists(scan.seen, key) =>
                  /\ Cardinality(ActionsOn(key)) = 1
                  /\ \A i \in ActionsOn(key) : scan.batch[i] = Delete(key)
        /\ \A key \in Nodes \ DOMAIN store :
              (~Exists(scan.seen, key) /\ ~Exists(scan.listed, key) /\ ~Exists(tree, key))
                  => ActionsOn(key) = {}

\* C7: a batch holds no Read of a key the storage holds when
\* next_scanner_actions is called.
C7_NoReadOfTrackedKey ==
    \A i \in 1..Len(scan.batch) :
        scan.batch[i].op = "Read" => ~contains_object(store, scan.batch[i].key)

\* The scan listed a tracked file, skipped it, and read a new one.
C7_Witness ==
    /\ Returned
    /\ \E key \in DOMAIN store :
          /\ is_file(scan.listed, key)
          /\ PathMatch(scanner.path \o <<StarStar, scanner.object_pattern>>, key)
          /\ ActionsOn(key) = {}
    /\ \E i \in 1..Len(scan.batch) : scan.batch[i].op = "Read"

\* C8: in the batch of a scan with deletions enabled, a tracked key whose
\* object exists has exactly one action, Update(key, metadata on disk), when
\* is_changed(cached metadata, metadata on disk), and no action otherwise.
C8_UpdateIffChanged ==
    (Returned /\ scan.del) =>
        \A key \in DOMAIN store :
            Exists(scan.seen, key) =>
                LET current == from_fs_meta(key, scan.seen[key])
                IN  IF is_changed(store[key], current)
                    THEN /\ Cardinality(ActionsOn(key)) = 1
                         /\ \A i \in ActionsOn(key) :
                               scan.batch[i] = Update(key, current)
                    ELSE ActionsOn(key) = {}

\* One tracked file changed only its modification time and got its Update,
\* another is unchanged and got nothing.
C8_Witness ==
    /\ Returned
    /\ scan.del
    /\ \E key \in DOMAIN store :
          /\ Exists(scan.seen, key)
          /\ store[key].size = scan.seen[key].size
          /\ store[key].modified_at # scan.seen[key].mtime
          /\ ActionsOn(key) # {}
    /\ \E key \in DOMAIN store :
          /\ Exists(scan.seen, key)
          /\ ~is_changed(store[key], from_fs_meta(key, scan.seen[key]))

\* C9: a batch holds at most one action per key (so no key has a Read beside
\* an Update or a Delete).
C9_OneActionPerKey ==
    Returned => \A key \in Nodes : Cardinality(ActionsOn(key)) <= 1

\* C10: when the lookup of a tracked key fails in the deletion pass with an
\* error other than not-found, next_scanner_actions returns an error.
C10_LookupErrorIsPropagated ==
    ( /\ scan.pc = "returned"
      /\ scan.del
      /\ \E key \in DOMAIN store :
            fs_metadata(scan.seen, key).kind \notin {"Ok", "NotFound"} )
    => scan.result = "Err"

C12_DeletionsPrecedeInsertions ==
    (Returned /\ scan.del) =>
        /\ \A i, j \in 1..Len(scan.batch) :
              (scan.batch[i].op \in {"Delete", "Update"} /\ scan.batch[j].op = "Read")
                  => i < j
        /\ \A A \in DOMAIN store, B \in Nodes \ DOMAIN store :
              ( /\ scan.ops = fsOps
                /\ fs_metadata(tree, A).kind = "NotFound"
                /\ is_file(tree, B)
                /\ ~is_changed(store[A], from_fs_meta(B, tree[B]))
                /\ B \in Range(scan.found) )
              => /\ \E i, j \in 1..Len(scan.batch) :
                       /\ i < j
                       /\ scan.batch[i] = Delete(A)
                       /\ scan.batch[j] = Read(B, from_fs_meta(B, tree[B]))
                 /\ \A i \in ActionsOn(A) : scan.batch[i].op # "Update"

\* The tracked file d/a.t was renamed to d/s/c.t and the batch holds the
\* Delete of the one before the Read of the other.
C12_Witness ==
    /\ Returned
    /\ scan.del
    /\ scan.ops = fsOps
    /\ \E A \in DOMAIN store, B \in Nodes \ DOMAIN store :
          /\ fs_metadata(tree, A).kind = "NotFound"
          /\ is_file(tree, B)
          /\ ~is_changed(store[A], from_fs_meta(B, tree[B]))
          /\ scan.batch = <<Delete(A), Read(B, from_fs_meta(B, tree[B]))>>

\* C18: a scanner is constructed only from well-formed patterns, so no call
\* of next_scanner_actions on a constructed scanner ends with a pattern error.
C18_PatternErrorsFailConstruction ==
    scan.pc = "returned" => scan.result = "Ok"

\* C19: in the insertion pass an enumerated path that is gone at its stat
\* gets no Read and the call still returns Ok; every other enumerated path
\* that is not tracked gets its Read: an untracked key has as many Read
\* actions as it has enumerated occurrences that were there at their stat.
C19_LostRaceIsSkipped ==
    /\ (scan.pc = "returned" /\ scan.lost # {}) => scan.result = "Ok"
    /\ Returned =>
          \A key \in Range(scan.found) \ DOMAIN store :
              Cardinality({i \in ActionsOn(key) : scan.batch[i].op = "Read"})
                = Cardinality({j \in 1..Len(scan.found) :
                                  scan.found[j] = key /\ j \notin scan.lost})

\* One enumerated file was removed before its stat and another was read.
C19_Witness ==
    /\ Returned
    /\ scan.lost # {}
    /\ \A j \in scan.lost : ActionsOn(scan.found[j]) = {}
    /\ \E i \in 1..Len(scan.batch) : scan.batch[i].op = "Read"

\* C20: object_metadata returns Ok(None) exactly when the lookup fails with
\* NotFound, Ok(Some(metadata of the object)) exactly when it succeeds, and an
\* error exactly when it fails with another I/O error.
C20_ObjectMetadataResult ==
    lookup.os.kind # "none" =>
        /\ lookup.res.kind = "OkNone" <=> lookup.os.kind = "NotFound"
        /\ lookup.res.kind = "OkSome" <=> lookup.os.kind = "Ok"
        /\ lookup.res.kind = "Err" <=> lookup.os.kind \notin {"Ok", "NotFound"}
        /\ lookup.res.kind = "OkSome" =>
              lookup.res.metadata = from_fs_meta(lookup.key, lookup.os.node)

\* A file was removed and its lookup returned Ok(None).
C20_Witness ==
    /\ lookup.key \in FileNodes
    /\ InitialTree[lookup.key].t = "file"
    /\ tree[lookup.key].t = "none"
    /\ lookup.os.kind = "NotFound"
    /\ lookup.res = OkNone

\* C21: the batch of a call with deletions disabled holds Read actions only.
C21_NoDeletionsWhenDisabled ==
    (scan.pc # "idle" /\ ~scan.del) =>
        \A i \in 1..Len(scan.batch) : scan.batch[i].op = "Read"

\* With deletions disabled one tracked file was gone and another changed when
\* the call started; neither got an action, and an untracked file was read.
C21_Witness ==
    /\ Returned
    /\ ~scan.del
    /\ \E key \in DOMAIN store :
          fs_metadata(scan.seen, key).kind = "NotFound" /\ ActionsOn(key) = {}
    /\ \E key \in DOMAIN store :
          /\ Exists(scan.seen, key)
          /\ is_changed(store[key], from_fs_meta(key, scan.seen[key]))
          /\ ActionsOn(key) = {}
    /\ scan.batch # <<>>

\* C22: no step of a call of next_scanner_actions (its start, the
\* enumeration, the insertion pass), whether the call returns a batch or an
\* error, changes the storage.
C22_ScanLeavesStore ==
    [][(scan'.pc # "idle" /\ scan' # scan) => store' = store]_vars

\* A call returned a batch that would change the storage it was given.
C22_Witness ==
    /\ Returned
    /\ scan.batch # <<>>
    /\ store # <<>>
    /\ ApplyBatch(store, scan.batch) # store

\* C23: the life of a file seen by calls with deletions enabled whose batches
\* are applied, the tree not changing during a call.  A matching file that is
\* not tracked has exactly one action, its Read; a tracked file whose
\* metadata changed has exactly one action, the Update with the new metadata;
\* a tracked file that is gone has exactly one action, its Delete; and a path
\* that is not tracked and that the patterns do not match has no action.
C23_Lifecycle ==
    (Returned /\ scan.del /\ scan.ops = fsOps) =>
        \A key \in Nodes :
            /\ (key \notin DOMAIN store /\ is_file(tree, key) /\ key \in Range(scan.found))
                  => /\ Cardinality(ActionsOn(key)) = 1
                     /\ \A i \in ActionsOn(key) :
                           scan.batch[i] = Read(key, from_fs_meta(key, tree[key]))
            /\ (key \in DOMAIN store /\ Exists(tree, key)
                    /\ is_changed(store[key], from_fs_meta(key, tree[key])))
                  => /\ Cardinality(ActionsOn(key)) = 1
                     /\ \A i \in ActionsOn(key) :
                           scan.batch[i] = Update(key, from_fs_meta(key, tree[key]))
            /\ (key \in DOMAIN store /\ fs_metadata(tree, key).kind = "NotFound")
                  => /\ Cardinality(ActionsOn(key)) = 1
                     /\ \A i \in ActionsOn(key) : scan.batch[i] = Delete(key)
            /\ (key \notin DOMAIN store /\ key \notin Range(scan.found))
                  => ActionsOn(key) = {}

\* The plain files a scanner is to read: those its root pattern resolves to,
\* and those at any depth below a directory the root pattern resolves to
\* whose name matches the object pattern.
IsBelow(root, f) == Len(root) < Len(f) /\ SubSeq(f, 1, Len(root)) = root
ExpectedKeys(t, sc) ==
    {f \in Nodes :
        /\ is_file(t, f)
        /\ \E root \in Range(glob(t, sc.path)) :
              /\ \/ root = f
                 \/ /\ t[root].t = "dir"
                    /\ IsBelow(root, f)
                    /\ WildMatch(sc.object_pattern, f[Len(f)])}

\* C24: over an empty storage and a tree that holds still during the call,
\* the keys of the Read actions are the plain files the root pattern resolves
\* to and the plain files at any depth below a directory it resolves to whose
\* name matches the object pattern; each Read is keyed by the path of its file
\* and carries that path in its metadata; no directory and no file that does
\* not match has a Read.
C24_InsertionEnumeration ==
    (Returned /\ store = <<>> /\ scan.ops = fsOps) =>
        /\ {scan.batch[i].key : i \in 1..Len(scan.batch)} = ExpectedKeys(tree, scanner)
        /\ \A i \in 1..Len(scan.batch) :
              /\ scan.batch[i].op = "Read"
              /\ is_file(tree, scan.batch[i].key)
              /\ scan.batch[i].metadata.path = scan.batch[i].key
              /\ scan.batch[i].metadata = from_fs_meta(scan.batch[i].key,
                                                         tree[scan.batch[i].key])

\* The root is the directory d and the object pattern *.t: the batch reads
\* d/a.t and, one level down, d/s/c.t, and neither d/b.l nor the directory d/s.
C24_Witness ==
    /\ Returned
    /\ store = <<>>
    /\ scan.ops = fsOps
    /\ scanner = [path |-> <<NameD>>, object_pattern |-> StarT]
    /\ is_file(tree, <<NameD, NameB>>)
    /\ {scan.batch[i].key : i \in 1..Len(scan.batch)}
          = {<<NameD, NameA>>, <<NameD, NameS, NameC>>}

\* C27: has_pending_actions is false in every state, before and after any
\* sequence of calls of next_scanner_actions.
C27_NothingPending == has_pending_actions = FALSE

\* After a second call that returned actions nothing is pending.
C27_Witness ==
    /\ Returned
    /\ scans >= 2
    /\ scan.batch # <<>>
    /\ ~has_pending_actions

C29_Convergence ==
    (scan.pc = "idle" /\ scan.applied.valid /\ scan.applied.ops = fsOps) =>
        /\ \A key \in DOMAIN store :
              /\ Exists(tree, key)
              /\ ~is_changed(store[key], from_fs_meta(key, tree[key]))
        /\ ExpectedKeys(tree, scanner) \subseteq DOMAIN store

\* C25: a path that is not Unicode gets no Read, and nothing below it does;
\* it never fails the call; and over a tree that holds still during the call
\* every other file the patterns match that is not tracked gets its Read.
C25_NonUnicodeIsSkipped ==
    /\ scan.pc = "returned" => scan.result = "Ok"
    /\ Returned =>
          /\ \A i \in 1..Len(scan.batch) :
                scan.batch[i].op = "Read" => to_str_ok(scan.batch[i].key)
          /\ scan.ops = fsOps =>
                \A key \in ExpectedKeys(tree, scanner) \ DOMAIN store :
                    to_str_ok(key) =>
                        \E i \in ActionsOn(key) : scan.batch[i].op = "Read"

(***************************************************************************)
(* Claims about the telemetry runner.                                      *)
(***************************************************************************)
\* C32: when Runner::run has returned and the Runner is not yet dropped, the
\* telemetry thread has built its guard with the providers its configuration
\* asks for, has registered the stats and the system metrics, has handed its
\* close sender to the Runner, and is blocked on the empty close channel;
\* the thread is past that wait only once the Runner is being dropped.
C32_StartupHandshake ==
    /\ runner.pc = "running" =>
          /\ thread.pc = "waiting"
          /\ guard.alive
          /\ guard.meter_provider = IF thread.config.metrics THEN "Some" ELSE "None"
          /\ guard.tracer_provider = IF thread.config.tracing THEN "Some" ELSE "None"
          /\ global.meter = IF thread.config.metrics THEN "sdk" ELSE "noop"
          /\ global.tracer = IF thread.config.tracing THEN "sdk" ELSE "noop"
          /\ registered.stats
          /\ registered.sys
          /\ runner.close_sender
          /\ close_channel = [buf |-> 0, sender |-> TRUE, receiver |-> TRUE]
    /\ thread.pc \in {"woken", "meter_restored", "guard_dropped", "exited"}
          => runner.pc \in {"joining", "dropped"}

\* A second Runner runs with both providers installed and the prober's
\* statistics stored.
C32_Witness ==
    /\ runner.pc = "running"
    /\ runs >= 2
    /\ thread.config = [metrics |-> TRUE, tracing |-> TRUE]
    /\ global = [meter |-> "sdk", tracer |-> "sdk"]
    /\ thread.pc = "waiting"
    /\ stats = "Some"

\* C33: dropping a Runner sends the close signal without panicking; once it
\* is sent the join returns; and when it has returned the telemetry thread
\* has exited, its guard is dropped with every installed provider shut down,
\* and the global providers are the no-op ones.
C33_TeardownTerminates ==
    /\ (runner.pc = "joining") ~> (runner.pc = "dropped")
    /\ [](runner.pc = "dropped" =>
            /\ thread.pc = "exited"
            /\ ~guard.alive
            /\ guard.meter_provider # "Some"
            /\ guard.tracer_provider # "Some"
            /\ global = NoopProviders)
    /\ [][ /\ (runner.pc \in {"running", "joining"}) => runner'.pc # "panicked"
           /\ (runner.pc = "running" /\ runner'.pc # "running")
                 => (runner'.pc = "joining" /\ close_channel'.buf = 1) ]_vars

\* A Runner was dropped whose providers were both installed and whose flush
\* or shutdown failed on the way.
C33_Witness ==
    /\ runner.pc = "dropped"
    /\ thread.pc = "exited"
    /\ thread.config = [metrics |-> TRUE, tracing |-> TRUE]
    /\ thread.swallowed >= 1
    /\ global = NoopProviders

====
